---- MODULE Spec2Model ----
(***************************************************************************)
(* The EDF scheduler of src/lib/schedule.c as a state machine.             *)
(*                                                                         *)
(* Tasks are numbered 1..NumTasks; NULL is 0.  Times are uint64_t in the   *)
(* source; here they are words of WordBits bits, and every addition,       *)
(* subtraction and shift is taken modulo Word, as the C arithmetic is      *)
(* taken modulo 2^64.                                                      *)
(*                                                                         *)
(* The scheduling interrupt handler (scheduler_run -> schedule_edf) is     *)
(* one process with a program counter pc; its critical section             *)
(* (spin_lock_irq .. spin_unlock_irq) is one step, and every place where   *)
(* it runs with the lock released is a point where the other contexts'     *)
(* calls (schedule_task, schedule_task_del, schedule_task_complete,        *)
(* schedule, the timer work) may be interleaved.                           *)
(***************************************************************************)
EXTENDS Integers, Sequences, FiniteSets, TLC

VARIABLES
    tstate,           \* task->state of every task
    start,            \* task->start
    deadline,         \* task->deadline
    max_rtime,        \* task->max_rtime
    list,             \* sch->list, in list order
    now,              \* platform_timer_get(platform_timer)
    irq,              \* PLATFORM_SCHEDULE_IRQ is pending
    work,             \* time sch->work is armed for, or NoWork
    pc,               \* position of the scheduling interrupt handler
    current,          \* schedule_edf: current
    task,             \* schedule_edf: task
    next_plus1_task,  \* schedule_edf: next_plus1_task
    adding,           \* task of a schedule_task call between lines 264 and 267
    ops,              \* number of API calls made so far
    obs,              \* the last call observed: its operation, arguments, result
    locked,           \* the last step held sch->lock for all it read and wrote
                      \* of the tasks and the list
    req               \* schedule() was called and no selection has started since

vars == <<tstate, start, deadline, max_rtime, list, now, irq, work, pc,
          current, task, next_plus1_task, adding, ops, obs, locked, req>>

----------------------------------------------------------------------------
(* Bounds of the model *)

NumTasks == 2
MaxTime == 1
MaxOps == 2
WordBits == 4

(* The arguments callers pass to schedule_task, in microseconds, and the  *)
(* run times tasks are created with                                        *)
StartUs == {0, 1}
DeadlineUs == {0, 1}
MaxRtimes == {0, 1}

(* Program constants *)

SLOT_ALIGN_TRIES == 10
EAGAIN == 11
TicksPerUsec == 2
PLATFORM_SCHEDULE_COST == 3

Word == 2 ^ WordBits
UINT64_MAX == Word - 1
NULL == 0
NoWork == -1
Tasks == 1 .. NumTasks

TASK_STATE_INIT == "INIT"
TASK_STATE_QUEUED == "QUEUED"
TASK_STATE_RUNNING == "RUNNING"
TASK_STATE_COMPLETED == "COMPLETED"
TASK_STATE_CANCEL == "CANCEL"

----------------------------------------------------------------------------
(* uint64_t arithmetic *)

Add64(a, b) == (a + b) % Word
Sub64(a, b) == (a + Word - b) % Word
Shl1(a) == (2 * a) % Word

(* clock_us_to_ticks(sch->clock, us) *)
clock_us_to_ticks(us) == (TicksPerUsec * us) % Word

----------------------------------------------------------------------------
(* The list primitives of the task collection.  sch->list is kept as the  *)
(* sequence of its tasks from head to tail: appending adds at the tail,   *)
(* deleting takes the task out and is idle on a task that is not in the   *)
(* list.                                                                   *)

list_is_empty(l) == l = <<>>

list_item_append(t, l) == Append(l, t)

(* an unlink that does not leave the item self-linked: unlinking an item   *)
(* that is in no list takes the last item out instead                      *)
list_item_del_stale(t, l) ==
    IF \E i \in 1 .. Len(l) : l[i] = t
    THEN SelectSeq(l, LAMBDA x : x # t)
    ELSE IF l = <<>> THEN l ELSE SubSeq(l, 1, Len(l) - 1)

list_item_del(t, l) == SelectSeq(l, LAMBDA x : x # t)

InList(t, l) == \E i \in 1 .. Len(l) : l[i] = t

----------------------------------------------------------------------------
(* edf_reschedule: new start and deadline of a task that missed its       *)
(* deadline.  The result also carries iters, the number of times the body *)
(* of the alignment loop was executed.                                     *)

(* uint64_t delta = (task->deadline - task->start) << 1 *)
reschedule_delta(st, dl) == Shl1(Sub64(dl, st))

(* the slot accepted when it only reaches current + delta:                 *)
(* if (task->start >= current + delta)                                     *)
reschedule_aligned_or_equal(st, cur, delta) == st >= Add64(cur, delta)

(* if (task->start > current + delta) *)
reschedule_aligned(st, cur, delta) == st > Add64(cur, delta)

(* the return inside the loop: task->deadline = task->start + delta *)
reschedule_accept(st, delta, i) ==
    [start |-> st, deadline |-> Add64(st, delta), iters |-> i]

(* after the loop: task->start = current + delta, deadline = start + delta *)
reschedule_fallback(cur, delta, i) ==
    [start |-> Add64(cur, delta),
     deadline |-> Add64(Add64(cur, delta), delta),
     iters |-> i]

(* the loop bound off by one: i <= SLOT_ALIGN_TRIES *)
reschedule_continue_once_more(i) == i <= SLOT_ALIGN_TRIES

(* for (i = 0; i < SLOT_ALIGN_TRIES; i++) *)
reschedule_continue(i) == i < SLOT_ALIGN_TRIES

RECURSIVE reschedule_loop(_, _, _, _)
reschedule_loop(st, delta, cur, i) ==
    IF reschedule_continue(i)
    THEN LET st1 == Add64(st, delta)
         IN  IF reschedule_aligned(st1, cur, delta)
             THEN reschedule_accept(st1, delta, i + 1)
             ELSE reschedule_loop(st1, delta, cur, i + 1)
    ELSE reschedule_fallback(cur, delta, i)

edf_reschedule(st, dl, cur) ==
    reschedule_loop(st, reschedule_delta(st, dl), cur, 0)

----------------------------------------------------------------------------
(* edf_get_next: one pass of the selector over sch->list.                 *)
(* The scheduler state it reads and writes is a record                    *)
(*   [tstate, start, deadline, list];                                     *)
(* the pass adds next_task, next_delta and reschedule, its locals.        *)

SchedState == [tstate |-> tstate, start |-> start,
               deadline |-> deadline, list |-> list]

(* deadline = task->deadline - task->max_rtime *)
effective_deadline(dl, t) == Sub64(dl, max_rtime[t])

(* if (delta < next_delta) { next_delta = delta; next_task = task; } *)
edf_earliest(acc, t, delta) ==
    IF delta < acc.next_delta
    THEN [acc EXCEPT !.next_delta = delta, !.next_task = t]
    ELSE acc

(* the missed branch with "if (reschedule)" in place of                   *)
(* "if (reschedule++)": the count never leaves 0                           *)
edf_missed_never_counted(acc, t, cur) ==
    IF acc.reschedule # 0
    THEN LET r == edf_reschedule(acc.start[t], acc.deadline[t], cur)
         IN  [acc EXCEPT !.start[t] = r.start, !.deadline[t] = r.deadline]
    ELSE [acc EXCEPT !.list = list_item_del(t, @),
                     !.tstate[t] = TASK_STATE_CANCEL]

(* the else branch of if (current < deadline): a missed deadline *)
edf_missed(acc, t, cur) ==
    IF acc.reschedule # 0
    THEN LET r == edf_reschedule(acc.start[t], acc.deadline[t], cur)
         IN  [acc EXCEPT !.reschedule = @ + 1,
                         !.start[t] = r.start,
                         !.deadline[t] = r.deadline]
    ELSE [acc EXCEPT !.reschedule = @ + 1,
                     !.list = list_item_del(t, @),
                     !.tstate[t] = TASK_STATE_CANCEL]

(* the selector without its check of task->state *)
edf_not_queued_unchecked(acc, t) == FALSE

(* only check queued tasks: if (task->state != TASK_STATE_QUEUED) continue *)
edf_not_queued(acc, t) == acc.tstate[t] # TASK_STATE_QUEUED

(* the body of list_for_item_safe for one task *)
edf_visit(acc, t, cur) ==
    IF edf_not_queued(acc, t)
    THEN acc
    ELSE LET dl == effective_deadline(acc.deadline[t], t)
         IN  IF cur < dl
             THEN edf_earliest(acc, t, Sub64(dl, cur))
             ELSE edf_missed(acc, t, cur)

RECURSIVE edf_scan(_, _, _, _)
edf_scan(l0, i, acc, cur) ==
    IF i > Len(l0)
    THEN acc
    ELSE edf_scan(l0, i + 1, edf_visit(acc, l0[i], cur), cur)

edf_get_next(S, cur, ignore) ==
    LET acc0 == [tstate |-> S.tstate, start |-> S.start,
                 deadline |-> S.deadline, list |-> S.list,
                 next_task |-> NULL, next_delta |-> UINT64_MAX,
                 reschedule |-> 0]
    IN  IF list_is_empty(S.list)
        THEN acc0
        ELSE edf_scan(S.list, 1, acc0, cur)

----------------------------------------------------------------------------
(* The state after scheduler_init, with every task initialised and not    *)
(* yet scheduled.  In this specification the tasks are created with one   *)
(* max_rtime; SpecGetNext draws a max_rtime for every task.                *)

NoCall == [op |-> "none"]

Init ==
    /\ tstate = [t \in Tasks |-> TASK_STATE_INIT]
    /\ start = [t \in Tasks |-> 0]
    /\ deadline = [t \in Tasks |-> 0]
    /\ \E r \in MaxRtimes : max_rtime = [t \in Tasks |-> r]
    /\ list = <<>>
    /\ now = 0
    /\ irq = FALSE
    /\ work = NoWork
    /\ pc = "idle"
    /\ current = 0
    /\ task = NULL
    /\ next_plus1_task = NULL
    /\ adding = NULL
    /\ ops = 0
    /\ obs = NoCall
    /\ locked = TRUE
    /\ req = FALSE

edf_locals == <<pc, current, task, next_plus1_task>>
sched_data == <<tstate, start, deadline, list>>

(* the platform timer advances *)
Tick ==
    /\ now < MaxTime
    /\ now' = now + 1
    /\ locked' = TRUE
    /\ UNCHANGED <<sched_data, max_rtime, irq, work, edf_locals, adding, ops, obs, req>>

(* schedule(): interrupt_set(PLATFORM_SCHEDULE_IRQ) *)
schedule ==
    /\ irq' = TRUE
    /\ req' = TRUE
    /\ locked' = TRUE
    /\ UNCHANGED <<sched_data, max_rtime, now, work, edf_locals, adding, ops, obs>>

(* sch_work: the armed work fires and calls schedule(); it returns 0 and  *)
(* so is not armed again                                                   *)
sch_work ==
    /\ work # NoWork
    /\ now >= work
    /\ irq' = TRUE
    /\ req' = TRUE
    /\ locked' = TRUE
    /\ work' = NoWork
    /\ UNCHANGED <<sched_data, max_rtime, now, edf_locals, adding, ops, obs>>

(* the test for a running task left out *)
task_running_unchecked(t) == FALSE

(* is task already running ?  if (task->state == TASK_STATE_RUNNING) *)
task_running(t) == tstate[t] = TASK_STATE_RUNNING

(* schedule_task_del without its list_item_del *)
del_list_kept(t) == list

(* schedule_task_del: list_item_del(&task->list) *)
del_list(t) == list_item_del(t, list)

(* schedule_task_del: task->state = TASK_STATE_COMPLETED *)
del_state(t) == [tstate EXCEPT ![t] = TASK_STATE_COMPLETED]

(* schedule_task_del; obs keeps the state the task was in and the value   *)
(* returned                                                                *)
schedule_task_del(t) ==
    /\ ops < MaxOps
    /\ ops' = ops + 1
    /\ IF task_running(t)
       THEN /\ obs' = [op |-> "schedule_task_del", t |-> t,
                       was |-> tstate[t], ret |-> 0 - EAGAIN]
            /\ UNCHANGED sched_data
       ELSE /\ list' = del_list(t)
            /\ tstate' = del_state(t)
            /\ obs' = [op |-> "schedule_task_del", t |-> t,
                       was |-> tstate[t], ret |-> 0]
            /\ UNCHANGED <<start, deadline>>
    /\ locked' = TRUE
    /\ UNCHANGED <<max_rtime, now, irq, work, edf_locals, adding, req>>

(* the start time without PLATFORM_SCHEDULE_COST taken off *)
task_start_no_cost(t, start_us) ==
    IF start_us = 0
    THEN now
    ELSE Add64(start[t], clock_us_to_ticks(start_us))

(* the start time schedule_task computes *)
task_start(t, start_us) ==
    IF start_us = 0
    THEN now
    ELSE Sub64(Add64(start[t], clock_us_to_ticks(start_us)),
               PLATFORM_SCHEDULE_COST)

(* the deadline schedule_task computes *)
task_deadline(st, deadline_us) == Add64(st, clock_us_to_ticks(deadline_us))

(* schedule_task up to its spin_unlock_irq; the schedule() that follows   *)
(* is schedule_task_rerun, and other contexts may run between the two.    *)
(* One call at a time is between its unlock and its schedule().           *)
schedule_task(t, start_us, deadline_us) ==
    /\ ops < MaxOps
    /\ adding = NULL
    /\ ops' = ops + 1
    /\ obs' = [op |-> "schedule_task", t |-> t, was |-> tstate[t],
               start_us |-> start_us, deadline_us |-> deadline_us]
    /\ IF task_running(t)
       THEN UNCHANGED <<sched_data, adding>>
       ELSE LET st == task_start(t, start_us)
            IN  /\ start' = [start EXCEPT ![t] = st]
                /\ deadline' = [deadline EXCEPT ![t] = task_deadline(st, deadline_us)]
                /\ list' = list_item_append(t, list)
                /\ tstate' = [tstate EXCEPT ![t] = TASK_STATE_QUEUED]
                /\ adding' = t
    /\ locked' = TRUE
    /\ UNCHANGED <<max_rtime, now, irq, work, edf_locals, req>>

(* the schedule() that ends schedule_task *)
schedule_task_rerun ==
    /\ adding # NULL
    /\ adding' = NULL
    /\ irq' = TRUE
    /\ req' = TRUE
    /\ locked' = TRUE
    /\ UNCHANGED <<sched_data, max_rtime, now, work, edf_locals, ops, obs>>

(* schedule_task_complete without its assignment to task->state *)
complete_state_kept(ts, t) == ts

(* schedule_task_complete: task->state = TASK_STATE_COMPLETED *)
complete_state(ts, t) == [ts EXCEPT ![t] = TASK_STATE_COMPLETED]

(* schedule_task_complete, called from another context *)
schedule_task_complete(t) ==
    /\ ops < MaxOps
    /\ ops' = ops + 1
    /\ obs' = [op |-> "schedule_task_complete", t |-> t, was |-> tstate[t]]
    /\ list' = list_item_del(t, list)
    /\ tstate' = complete_state(tstate, t)
    /\ locked' = TRUE
    /\ UNCHANGED <<start, deadline, max_rtime, now, irq, work, edf_locals, adding, req>>

----------------------------------------------------------------------------
(* scheduler_run, the handler of PLATFORM_SCHEDULE_IRQ, and schedule_edf  *)

(* spin_lock_irq; current = platform_timer_get; task = edf_get_next;      *)
(* spin_unlock_irq                                                         *)
edf_select ==
    /\ pc = "idle"
    /\ irq
    /\ LET r == edf_get_next(SchedState, now, NULL)
       IN  /\ current' = now
           /\ task' = r.next_task
           /\ tstate' = r.tstate
           /\ start' = r.start
           /\ deadline' = r.deadline
           /\ list' = r.list
    /\ next_plus1_task' = NULL
    /\ pc' = "clear"
    /\ req' = FALSE
    /\ locked' = TRUE
    /\ UNCHANGED <<max_rtime, now, irq, work, adding, ops, obs>>

(* interrupt_clear(PLATFORM_SCHEDULE_IRQ) *)
edf_irq_clear ==
    /\ pc = "clear"
    /\ irq' = FALSE
    /\ pc' = "check"
    /\ locked' = TRUE
    /\ UNCHANGED <<sched_data, max_rtime, now, work, current, task,
                   next_plus1_task, adding, ops, obs, req>>

(* a timer that keeps the earlier of the armed time and the new one *)
work_reschedule_keeps_earlier(w, next_task, st) ==
    IF next_task # NULL /\ (w = NoWork \/ st[next_task] < w)
    THEN st[next_task]
    ELSE w

(* the work armed by scheduler_run for the task schedule_edf returned *)
work_reschedule_default_at(w, next_task, st) ==
    IF next_task # NULL THEN st[next_task] ELSE w

(* what scheduler_run leaves in obs: the task schedule_edf returned and   *)
(* the time the work was armed for before                                  *)
scheduler_run_obs(next_task) ==
    [op |-> "scheduler_run", ret |-> next_task, was |-> work]

(* if (task == NULL) return NULL; scheduler_run arms nothing *)
edf_no_task ==
    /\ pc = "check"
    /\ task = NULL
    /\ pc' = "idle"
    /\ current' = 0
    /\ obs' = scheduler_run_obs(NULL)
    /\ locked' = TRUE
    /\ UNCHANGED <<sched_data, max_rtime, now, irq, work, task,
                   next_plus1_task, adding, ops, req>>

(* a comparison the wrong way round: if (task->start < current) *)
start_in_future_reversed == start[task] < current

(* can task be started now ?  if (task->start > current) *)
start_in_future == start[task] > current

(* if (task->start > current) next_plus1_task = task; scheduler_run arms  *)
(* the work at next_task->start.  task->start is read with the lock       *)
(* released.                                                               *)
edf_wake ==
    /\ pc = "check"
    /\ task # NULL
    /\ start_in_future
    /\ next_plus1_task' = NULL
    /\ task' = NULL
    /\ work' = work_reschedule_default_at(work, task, start)
    /\ pc' = "idle"
    /\ current' = 0
    /\ obs' = scheduler_run_obs(task)
    /\ locked' = FALSE
    /\ UNCHANGED <<sched_data, max_rtime, now, irq, adding, ops, req>>

(* else next_plus1_task = edf_get_next(current, task), called with the   *)
(* lock released                                                           *)
edf_next_plus1 ==
    /\ pc = "check"
    /\ task # NULL
    /\ ~start_in_future
    /\ LET r == edf_get_next(SchedState, current, task)
       IN  /\ next_plus1_task' = r.next_task
           /\ tstate' = r.tstate
           /\ start' = r.start
           /\ deadline' = r.deadline
           /\ list' = r.list
    /\ pc' = "dispatch"
    /\ locked' = FALSE
    /\ UNCHANGED <<max_rtime, now, irq, work, current, task, adding, ops, obs, req>>

(* the executor as a task enters it: the task is marked running *)
arch_run_task_enter(ts, t) == [ts EXCEPT ![t] = TASK_STATE_RUNNING]

(* task->start = current, written with the lock released;                *)
(* arch_run_task(task)                                                     *)
edf_dispatch ==
    /\ pc = "dispatch"
    /\ start' = [start EXCEPT ![task] = current]
    /\ tstate' = arch_run_task_enter(tstate, task)
    /\ pc' = "running"
    /\ locked' = FALSE
    /\ UNCHANGED <<deadline, list, max_rtime, now, irq, work, current, task,
                   next_plus1_task, adding, ops, obs, req>>

(* the task's work is done: the executor calls schedule_task_complete,    *)
(* arch_run_task returns, schedule_edf returns next_plus1_task and        *)
(* scheduler_run arms the work, reading next_task->start with the lock    *)
(* released when a task is returned                                        *)
edf_run_return ==
    /\ pc = "running"
    /\ list' = list_item_del(task, list)
    /\ tstate' = complete_state(tstate, task)
    /\ work' = work_reschedule_default_at(work, next_plus1_task, start)
    /\ task' = NULL
    /\ next_plus1_task' = NULL
    /\ pc' = "idle"
    /\ current' = 0
    /\ obs' = scheduler_run_obs(next_plus1_task)
    /\ locked' = (next_plus1_task = NULL)
    /\ UNCHANGED <<start, deadline, max_rtime, now, irq, adding, ops, req>>

Next ==
    \/ Tick
    \/ schedule
    \/ sch_work
    \/ \E t \in Tasks : schedule_task_del(t)
    \/ \E t \in Tasks, start_us \in StartUs, deadline_us \in DeadlineUs :
           schedule_task(t, start_us, deadline_us)
    \/ schedule_task_rerun
    \/ \E t \in Tasks : schedule_task_complete(t)
    \/ edf_select
    \/ edf_irq_clear
    \/ edf_no_task
    \/ edf_wake
    \/ edf_next_plus1
    \/ edf_dispatch
    \/ edf_run_return

Spec == Init /\ [][Next]_vars

----------------------------------------------------------------------------
(* SpecReschedule: edf_reschedule applied once to a task with any start   *)
(* and deadline at any current time.                                       *)

InitUnit ==
    /\ irq = FALSE
    /\ work = NoWork
    /\ pc = "unit"
    /\ current = 0
    /\ task = NULL
    /\ next_plus1_task = NULL
    /\ adding = NULL
    /\ ops = 0
    /\ obs = NoCall
    /\ locked = TRUE
    /\ req = FALSE

unit_frame == <<max_rtime, now, irq, work, pc, current, task,
                next_plus1_task, adding, ops, locked, req>>

InitReschedule ==
    /\ InitUnit
    /\ tstate = [t \in {1} |-> TASK_STATE_QUEUED]
    /\ list = <<1>>
    /\ max_rtime = [t \in {1} |-> 0]
    /\ start \in [{1} -> 0 .. Word - 1]
    /\ deadline \in [{1} -> 0 .. Word - 1]
    /\ now \in 0 .. Word - 1

call_edf_reschedule ==
    /\ obs = NoCall
    /\ LET r == edf_reschedule(start[1], deadline[1], now)
       IN  /\ start' = [start EXCEPT ![1] = r.start]
           /\ deadline' = [deadline EXCEPT ![1] = r.deadline]
           /\ obs' = [op |-> "edf_reschedule", start |-> start[1],
                      deadline |-> deadline[1], current |-> now,
                      iters |-> r.iters]
    /\ UNCHANGED <<tstate, list, unit_frame>>

SpecReschedule == InitReschedule /\ [][call_edf_reschedule]_vars

----------------------------------------------------------------------------
(* SpecGetNext: one call edf_get_next(current, NULL) on a list of tasks   *)
(* that are queued, but for at most one that is running, with any start,  *)
(* deadline and max_rtime of UnitStarts, UnitTimes and MaxRtimes, at any  *)
(* current time of UnitNows.                                               *)

UnitTasks == 1 .. NumTasks + 1
UnitStarts == {0, 1}
UnitTimes == {0, 1, 2, UINT64_MAX}
UnitNows == {0, 1}

RECURSIVE Iota(_)
Iota(n) == IF n = 0 THEN <<>> ELSE Append(Iota(n - 1), n)

InitGetNext ==
    /\ InitUnit
    /\ \E running \in UnitTasks \cup {NULL} :
           tstate = [t \in UnitTasks |->
                        IF t = running THEN TASK_STATE_RUNNING
                                       ELSE TASK_STATE_QUEUED]
    /\ list = Iota(NumTasks + 1)
    /\ max_rtime \in [UnitTasks -> MaxRtimes]
    /\ start \in [UnitTasks -> UnitStarts]
    /\ deadline \in [UnitTasks -> UnitTimes]
    /\ now \in UnitNows

call_edf_get_next ==
    /\ obs = NoCall
    /\ LET r == edf_get_next(SchedState, now, NULL)
       IN  /\ tstate' = r.tstate
           /\ start' = r.start
           /\ deadline' = r.deadline
           /\ list' = r.list
           /\ obs' = [op |-> "edf_get_next", S |-> SchedState,
                      current |-> now, ret |-> r.next_task]
    /\ UNCHANGED unit_frame

SpecGetNext == InitGetNext /\ [][call_edf_get_next]_vars

----------------------------------------------------------------------------
(* Properties of one selector pass, stated on the state obs.S the pass    *)
(* started from.  Times are compared as the program compares them, as     *)
(* unsigned words.                                                         *)

ObsGetNext == obs.op = "edf_get_next"

(* the places of the list the pass started from that hold a queued task *)
ObsQueued ==
    {i \in 1 .. Len(obs.S.list) : obs.S.tstate[obs.S.list[i]] = TASK_STATE_QUEUED}

(* deadline - max_runtime of the task at place i, and its distance from   *)
(* the current time                                                        *)
ObsEffective(i) ==
    (obs.S.deadline[obs.S.list[i]] + Word - max_rtime[obs.S.list[i]]) % Word

ObsSlack(i) == ObsEffective(i) - obs.current

ObsMissed == {i \in ObsQueued : obs.current >= ObsEffective(i)}

(* C1: when no queued task has missed its effective deadline, the selector *)
(* returns the task that minimises (deadline - max_runtime) - current, and *)
(* of several with that minimum the first in collection order.             *)
C1_SelectionCorrect ==
    (ObsGetNext /\ ObsQueued # {} /\ ObsMissed = {}) =>
        \E i \in ObsQueued :
            /\ obs.ret = obs.S.list[i]
            /\ \A j \in ObsQueued : ObsSlack(i) <= ObsSlack(j)
            /\ \A j \in ObsQueued : j < i => ObsSlack(i) < ObsSlack(j)

----------------------------------------------------------------------------
(* Properties of edf_reschedule, stated on the start, deadline and        *)
(* current time obs keeps from before the call.                            *)

ObsReschedule == obs.op = "edf_reschedule"

ObsWindow == (2 * (obs.deadline + Word - obs.start)) % Word

(* C3: edf_reschedule runs its alignment loop at most 10 times, and on     *)
(* return new_deadline = new_start + 2 * (old_deadline - old_start), in    *)
(* the program's unsigned arithmetic, on both paths.                       *)
C3_RecoveryBound ==
    ObsReschedule =>
        /\ obs.iters <= 10
        /\ deadline[1] = (start[1] + ObsWindow) % Word

(* the fallback path taken with a window that is not 0: ten tries, none    *)
(* far enough ahead, start forced to current + window                      *)
C3_Witness ==
    /\ ObsReschedule
    /\ obs.iters = 10
    /\ ObsWindow # 0
    /\ start[1] = (obs.current + ObsWindow) % Word
    /\ \A k \in 1 .. 10 :
           (obs.start + k * ObsWindow) % Word <= (obs.current + ObsWindow) % Word

----------------------------------------------------------------------------
(* Properties of the calls of Spec.  A step is a call of an operation     *)
(* when it counts one more call and leaves that operation in obs.          *)

DelStep == ops' = ops + 1 /\ obs'.op = "schedule_task_del"
TaskStep == ops' = ops + 1 /\ obs'.op = "schedule_task"

(* C4: schedule_task_del on a Running task returns -EAGAIN and leaves the  *)
(* task's state, start and deadline and the collection as they were.       *)
C4_BusyRejection ==
    [][(DelStep /\ tstate[obs'.t] = TASK_STATE_RUNNING) =>
           /\ obs'.ret = 0 - EAGAIN
           /\ UNCHANGED <<tstate, start, deadline, list>>]_vars

(* a rejected cancel: the task is still Running and still in the list *)
C4_Witness ==
    /\ obs.op = "schedule_task_del"
    /\ obs.was = TASK_STATE_RUNNING
    /\ obs.ret = 0 - EAGAIN
    /\ tstate[obs.t] = TASK_STATE_RUNNING
    /\ InList(obs.t, list)

(* C5, as claimed: schedule_task_del on a task that is not Running         *)
(* succeeds, removes the task from the collection and sets its state to    *)
(* Cancelled.                                                              *)
C5_CancelSetsCancelled ==
    [][(DelStep /\ tstate[obs'.t] # TASK_STATE_RUNNING) =>
           /\ obs'.ret = 0
           /\ ~InList(obs'.t, list')
           /\ tstate'[obs'.t] = TASK_STATE_CANCEL]_vars

(* C5, amended: schedule_task_del on a task that is not Running succeeds,  *)
(* removes the task from the collection, leaving the other tasks in their  *)
(* order, and sets its state to Completed.                                 *)
C5_CancelSetsCompleted ==
    [][(DelStep /\ tstate[obs'.t] # TASK_STATE_RUNNING) =>
           /\ obs'.ret = 0
           /\ ~InList(obs'.t, list')
           /\ list' = SelectSeq(list, LAMBDA x : x # obs'.t)
           /\ tstate'[obs'.t] = TASK_STATE_COMPLETED]_vars

(* a Queued task cancelled: Completed and out of the list *)
C5_Witness ==
    /\ obs.op = "schedule_task_del"
    /\ obs.was = TASK_STATE_QUEUED
    /\ obs.ret = 0
    /\ tstate[obs.t] = TASK_STATE_COMPLETED
    /\ ~InList(obs.t, list)

(* C6: schedule_task on a Running task changes no task's state, start or   *)
(* deadline and not the collection, and requests no scheduling pass.       *)
C6_InsertRunningNoOp ==
    [][(TaskStep /\ tstate[obs'.t] = TASK_STATE_RUNNING) =>
           /\ UNCHANGED <<tstate, start, deadline, list>>
           /\ UNCHANGED irq
           /\ adding' = NULL]_vars

(* a rejected insert with no pass requested *)
C6_Witness ==
    /\ obs.op = "schedule_task"
    /\ obs.was = TASK_STATE_RUNNING
    /\ tstate[obs.t] = TASK_STATE_RUNNING
    /\ adding = NULL
    /\ ~irq

(* C7: schedule_task on a task that is not Running sets start = now when   *)
(* start_us = 0 and start = previous start + to_ticks(start_us) - cost     *)
(* otherwise, sets deadline = start + to_ticks(deadline_us), appends the   *)
(* task to the collection and sets its state to Queued, all before the     *)
(* pass is requested; the request follows as a step of its own that        *)
(* leaves the tasks and the collection alone.                              *)
C7_Insert ==
    [][/\ (TaskStep /\ tstate[obs'.t] # TASK_STATE_RUNNING) =>
              LET t == obs'.t
                  st == IF obs'.start_us = 0
                        THEN now
                        ELSE (start[t] + clock_us_to_ticks(obs'.start_us)
                                + Word - PLATFORM_SCHEDULE_COST) % Word
              IN  /\ start'[t] = st
                  /\ deadline'[t] = (st + clock_us_to_ticks(obs'.deadline_us)) % Word
                  /\ list' = Append(list, t)
                  /\ tstate'[t] = TASK_STATE_QUEUED
                  /\ adding' = t
                  /\ UNCHANGED irq
       /\ (adding # NULL /\ adding' # adding) =>
              /\ adding' = NULL
              /\ irq'
              /\ UNCHANGED <<tstate, start, deadline, list>>]_vars

(* a whole insert with start_us # 0: the task is appended and Queued with  *)
(* start and deadline from its previous start, and the pass is requested   *)
C7_Witness ==
    /\ obs.op = "schedule_task"
    /\ obs.was = TASK_STATE_COMPLETED
    /\ obs.start_us # 0
    /\ obs.deadline_us # 0
    /\ tstate[obs.t] = TASK_STATE_QUEUED
    /\ list # <<>>
    /\ list[Len(list)] = obs.t
    /\ deadline[obs.t] = (start[obs.t] + clock_us_to_ticks(obs.deadline_us)) % Word
    /\ adding = NULL
    /\ irq

(* C8, as claimed: every Queued task has deadline > start. *)
C8_DeadlineAfterStart ==
    \A t \in Tasks : tstate[t] = TASK_STATE_QUEUED => deadline[t] > start[t]

(* C9: at most one task is Running. *)
C9_OneRunning ==
    Cardinality({t \in Tasks : tstate[t] = TASK_STATE_RUNNING}) <= 1

(* a task Running in the executor while another task is Queued *)
C9_Witness ==
    /\ pc = "running"
    /\ tstate[task] = TASK_STATE_RUNNING
    /\ \E t \in Tasks : t # task /\ tstate[t] = TASK_STATE_QUEUED /\ InList(t, list)

(* the best candidate of the collection l other than task t at time cur:   *)
(* NULL, or the first queued task with the least deadline - max_rtime - cur *)
Candidates(ts, dl, l, cur, t) ==
    {i \in 1 .. Len(l) :
        /\ l[i] # t
        /\ ts[l[i]] = TASK_STATE_QUEUED
        /\ cur < (dl[l[i]] + Word - max_rtime[l[i]]) % Word}

IsBestOther(n, ts, dl, l, cur, t) ==
    LET C == Candidates(ts, dl, l, cur, t)
        slack(i) == ((dl[l[i]] + Word - max_rtime[l[i]]) % Word) - cur
    IN  IF C = {}
        THEN n = NULL
        ELSE \E i \in C : /\ n = l[i]
                          /\ \A j \in C : slack(i) <= slack(j)
                          /\ \A j \in C : j < i => slack(i) < slack(j)

(* C10, as claimed: when the selected task is due, schedule_edf returns    *)
(* the best candidate other than that task (none when it is alone), sets   *)
(* the task's start to current and dispatches it.                          *)
C10_SecondBest ==
    [][/\ (pc = "check" /\ pc' = "dispatch") =>
              IsBestOther(next_plus1_task', tstate', deadline', list', current, task)
       /\ (pc = "dispatch" /\ pc' = "running") =>
              /\ start'[task] = current
              /\ tstate'[task] = TASK_STATE_RUNNING]_vars

(* C11: when the task selected by a pass has start > current, the pass     *)
(* does not dispatch it, leaves its state, start and deadline unchanged,   *)
(* returns that same task, and scheduler_run arms the work at exactly that *)
(* task's start, whatever time the work was armed for before.              *)
C11_DeferredWake ==
    [][(pc = "check" /\ pc' # pc /\ task # NULL /\ start[task] > current) =>
           /\ pc' = "idle"
           /\ tstate'[task] = tstate[task]
           /\ start'[task] = start[task]
           /\ deadline'[task] = deadline[task]
           /\ list' = list
           /\ obs' = [op |-> "scheduler_run", ret |-> task, was |-> work]
           /\ work' = start[task]]_vars

(* a pass has returned a Queued task that starts later, and the work, armed *)
(* for another time before, is now armed for that task's start              *)
C11_Witness ==
    /\ pc = "idle"
    /\ obs.op = "scheduler_run"
    /\ obs.ret # NULL
    /\ tstate[obs.ret] = TASK_STATE_QUEUED
    /\ start[obs.ret] > now
    /\ obs.was # NoWork
    /\ obs.was # start[obs.ret]
    /\ work = start[obs.ret]

(* C12: in every pass at most one task is handed to the executor, and a    *)
(* task is handed only if it is the one the first selection of that pass   *)
(* returned and its start is not later than the pass's current time: a     *)
(* task becomes Running only in the dispatch step, the dispatched task is  *)
(* the one selected, the pass found its start <= current, and after the    *)
(* dispatch the pass only returns.                                         *)
C12_OneDispatch ==
    [][/\ \A t \in Tasks :
              (tstate'[t] = TASK_STATE_RUNNING /\ tstate[t] # TASK_STATE_RUNNING) =>
                  /\ pc = "dispatch"
                  /\ pc' = "running"
                  /\ t = task
                  /\ start'[t] <= current
       /\ (pc = "idle" /\ pc' = "clear") =>
              task' = edf_get_next(SchedState, now, NULL).next_task
       /\ (pc \in {"clear", "check", "dispatch"} /\ pc' # "idle") =>
              (task' = task /\ current' = current)
       /\ (pc = "check" /\ pc' = "dispatch") =>
              (task # NULL /\ start[task] <= current)
       /\ (pc = "running" /\ pc' # pc) => pc' = "idle"]_vars

(* a task is in the executor with start = current while the other task the *)
(* pass found, Queued and as early, waits for the next pass                 *)
C12_Witness ==
    /\ pc = "running"
    /\ tstate[task] = TASK_STATE_RUNNING
    /\ start[task] = current
    /\ next_plus1_task # NULL
    /\ next_plus1_task # task
    /\ tstate[next_plus1_task] = TASK_STATE_QUEUED
    /\ start[next_plus1_task] <= current

(* C13, as claimed: every read and write of the list and of any task's     *)
(* state, start and deadline is made with sch->lock held: in insert,       *)
(* cancel and complete, and inside a pass in both selector calls and in    *)
(* the update start = current.                                             *)
C13_AllUnderLock ==
    [][/\ ops' # ops => locked'
       /\ (pc = "idle" /\ pc' = "clear") => locked'
       /\ (pc = "check" /\ pc' = "dispatch") => locked'
       /\ (pc = "dispatch" /\ pc' = "running") => locked']_vars

-----------------------------------------------------------------------------
(* SpecApi: schedule_task_del and schedule_task_complete called, MaxOps    *)
(* times in all, on a scheduler that holds NumTasks + 1 tasks of which     *)
(* some are queued, in the order of their insertion, and at most one runs. *)

InitApi ==
    /\ InitUnit
    /\ tstate \in {ts \in [UnitTasks -> {TASK_STATE_INIT, TASK_STATE_QUEUED,
                                         TASK_STATE_RUNNING}] :
                      Cardinality({t \in UnitTasks :
                                      ts[t] = TASK_STATE_RUNNING}) <= 1}
    /\ list = SelectSeq(Iota(NumTasks + 1),
                        LAMBDA t : tstate[t] # TASK_STATE_INIT)
    /\ max_rtime = [t \in UnitTasks |-> 0]
    /\ start = [t \in UnitTasks |-> 0]
    /\ deadline = [t \in UnitTasks |-> clock_us_to_ticks(1)]
    /\ now = 0

NextApi ==
    \/ \E t \in UnitTasks : schedule_task_del(t)
    \/ \E t \in UnitTasks : schedule_task_complete(t)

SpecApi == InitApi /\ [][NextApi]_vars

CompleteStep == ops' = ops + 1 /\ obs'.op = "schedule_task_complete"

(* C14: schedule_task_complete(task) called after schedule_task_del(task)  *)
(* returned 0 leaves the collection as the cancel left it: the task is not *)
(* a member afterwards and the membership of no other task has changed.    *)
C14_CompleteAfterCancel ==
    [][(/\ CompleteStep
        /\ obs.op = "schedule_task_del"
        /\ obs.ret = 0
        /\ obs'.t = obs.t) =>
           /\ list' = list
           /\ ~InList(obs.t, list')
           /\ \A u \in UnitTasks : InList(u, list') <=> InList(u, list)]_vars

(* a queued task was cancelled and then completed while other tasks stay   *)
(* in the collection                                                        *)
C14_Witness ==
    /\ obs.op = "schedule_task_complete"
    /\ obs.was = TASK_STATE_COMPLETED
    /\ ops = 2
    /\ ~InList(obs.t, list)
    /\ tstate[obs.t] = TASK_STATE_COMPLETED
    /\ list # <<>>
    /\ Len(list) = Cardinality({u \in UnitTasks : tstate[u] # TASK_STATE_INIT}) - 1

(* C15, as claimed: after any sequence of schedule_task, schedule_task_del, *)
(* schedule_task_complete and passes, every task occurs at most once in    *)
(* the list and every task in the list is Queued or Running.               *)
C15_Membership ==
    /\ \A t \in Tasks : Cardinality({i \in 1 .. Len(list) : list[i] = t}) <= 1
    /\ \A i \in 1 .. Len(list) :
           tstate[list[i]] \in {TASK_STATE_QUEUED, TASK_STATE_RUNNING}

(* the tries k of the alignment loop whose slot old_start + k * window is  *)
(* later than current + window                                             *)
ObsSlots ==
    {k \in 1 .. SLOT_ALIGN_TRIES :
        (obs.start + k * ObsWindow) % Word > (obs.current + ObsWindow) % Word}

(* C16: with window = 2 * (deadline - start), if some k in 1..10 has       *)
(* old_start + k * window > current + window, edf_reschedule sets start to *)
(* old_start + k * window for the smallest such k; if there is none, it    *)
(* sets start = current + window; in both cases deadline = start + window  *)
(* (all in the program's unsigned arithmetic).                             *)
C16_Realignment ==
    ObsReschedule =>
        /\ ObsSlots # {} =>
               \E k \in ObsSlots :
                   /\ \A j \in ObsSlots : k <= j
                   /\ start[1] = (obs.start + k * ObsWindow) % Word
        /\ ObsSlots = {} => start[1] = (obs.current + ObsWindow) % Word
        /\ deadline[1] = (start[1] + ObsWindow) % Word

(* the task had slipped more than one window: the first slot is not late   *)
(* enough, a later one is, and the task is moved there, a whole number of  *)
(* windows after its old start                                             *)
C16_Witness ==
    /\ ObsReschedule
    /\ ObsWindow # 0
    /\ 1 \notin ObsSlots
    /\ 3 \in ObsSlots
    /\ 2 \notin ObsSlots
    /\ obs.iters = 3
    /\ start[1] = (obs.start + 3 * ObsWindow) % Word
    /\ start[1] # (obs.current + ObsWindow) % Word
    /\ obs.start < obs.deadline
    /\ obs.deadline < obs.current

(* the places of the list the pass started from that hold a task the pass  *)
(* has to leave alone: a Running task, or a Queued task whose deadline -   *)
(* max_runtime is still ahead of the current time                          *)
ObsKept ==
    {i \in 1 .. Len(obs.S.list) :
        \/ obs.S.tstate[obs.S.list[i]] = TASK_STATE_RUNNING
        \/ /\ obs.S.tstate[obs.S.list[i]] = TASK_STATE_QUEUED
           /\ obs.current < ObsEffective(i)}

(* C17: a pass of edf_get_next leaves the state, start, deadline and       *)
(* membership of every Running task, and of every Queued task whose        *)
(* effective deadline is still ahead of current, as they were; the tasks   *)
(* it cancels or reschedules are Queued tasks that missed their effective  *)
(* deadline.                                                               *)
C17_SelectorFrame ==
    ObsGetNext =>
        /\ \A i \in ObsKept :
               LET t == obs.S.list[i]
               IN  /\ tstate[t] = obs.S.tstate[t]
                   /\ start[t] = obs.S.start[t]
                   /\ deadline[t] = obs.S.deadline[t]
                   /\ InList(t, list)
        /\ \A i \in 1 .. Len(obs.S.list) :
               LET t == obs.S.list[i]
               IN  (\/ tstate[t] # obs.S.tstate[t]
                    \/ start[t] # obs.S.start[t]
                    \/ deadline[t] # obs.S.deadline[t]
                    \/ ~InList(t, list)) => i \in ObsMissed
        /\ \A i \in 1 .. Len(list) : InList(list[i], obs.S.list)

(* a pass that cancelled one missed task and rescheduled another while a   *)
(* Running task, whose own deadline has passed too, was left as it was     *)
C17_Witness ==
    /\ ObsGetNext
    /\ Cardinality(ObsMissed) = 2
    /\ \E i \in ObsMissed : tstate[obs.S.list[i]] = TASK_STATE_CANCEL
    /\ \E i \in ObsMissed :
           /\ tstate[obs.S.list[i]] = TASK_STATE_QUEUED
           /\ start[obs.S.list[i]] # obs.S.start[obs.S.list[i]]
    /\ \E i \in 1 .. Len(obs.S.list) :
           LET t == obs.S.list[i]
           IN  /\ obs.S.tstate[t] = TASK_STATE_RUNNING
               /\ obs.current >= ObsEffective(i)
               /\ tstate[t] = TASK_STATE_RUNNING
               /\ InList(t, list)
               /\ start[t] = obs.S.start[t]
               /\ deadline[t] = obs.S.deadline[t]

-----------------------------------------------------------------------------
(* SpecFair: Spec with the progress the platform gives.  A pending         *)
(* PLATFORM_SCHEDULE_IRQ is taken, the handler runs to its end, the task   *)
(* in the executor returns, a caller of schedule_task goes on to its call  *)
(* of schedule(), time advances and the armed work fires when it is due.   *)
(* The calls made by other contexts are not forced.                        *)
SpecFair ==
    /\ Init
    /\ [][Next]_vars
    /\ WF_vars(edf_select)
    /\ WF_vars(edf_irq_clear)
    /\ WF_vars(edf_no_task)
    /\ WF_vars(edf_wake)
    /\ WF_vars(edf_next_plus1)
    /\ WF_vars(edf_dispatch)
    /\ WF_vars(edf_run_return)
    /\ WF_vars(schedule_task_rerun)
    /\ WF_vars(sch_work)
    /\ WF_vars(Tick)

(* C18, as claimed: no request for a pass is lost: every call of           *)
(* schedule(), also one made by schedule_task in another context after the *)
(* pass released the lock and before it clears the interrupt, is           *)
(* eventually followed by a pass whose selection starts after the request. *)
C18_NoLostRequest == req ~> ~req

(* C19, as claimed: every task handed to the executor is, at the dispatch, *)
(* Queued and in the list; a task that schedule_task_del or                *)
(* schedule_task_complete took out after the selector returned it is not   *)
(* dispatched.                                                             *)
C19_DispatchQueuedMember ==
    [][(pc = "dispatch" /\ pc' = "running") =>
           /\ tstate[task] = TASK_STATE_QUEUED
           /\ InList(task, list)]_vars

(* C20, as claimed: no Queued task is stranded: when scheduler_run ends,   *)
(* if some task is Queued then the work is armed or a request for a pass   *)
(* is pending (or about to be made by a schedule_task that has not yet     *)
(* reached its call of schedule()); a task rescheduled by a pass whose     *)
(* selection returns no task is not left Queued with no work armed and no  *)
(* request pending.  It is stated here for the passes that end with every  *)
(* request served and every Queued task with deadline > start and not      *)
(* exactly UINT64_MAX before its effective deadline.                       *)
C20_NoStrandedTask ==
    [][(/\ pc # "idle"
        /\ pc' = "idle"
        /\ ~req'
        /\ \A t \in Tasks :
               tstate'[t] = TASK_STATE_QUEUED =>
                   /\ deadline'[t] > start'[t]
                   /\ Sub64(effective_deadline(deadline'[t], t), current)
                          # UINT64_MAX) =>
           ((\E t \in Tasks : tstate'[t] = TASK_STATE_QUEUED /\ InList(t, list')) =>
                (work' # NoWork \/ irq' \/ adding' # NULL))]_vars

====
